---- MODULE Spec2Model ----
(***************************************************************************)
(* Retrieval subsystem of the RAG tutorial application: the chunk store    *)
(* (SQLite tables documents/chunks behind a singleton connection), the two *)
(* similarity functions and the two top-K retrieval implementations        *)
(*   - retrieveTopK        (step-06/utils/retrieval.js)                    *)
(*   - findSimilarChunks   (vectorStorage.js, src/unnamed/part_003)        *)
(*                                                                         *)
(* Numbers.  A JavaScript number is modelled as a record [k, v]:           *)
(*   k = "fin": the finite value v (a small integer, so that every sum and *)
(*              product below is exact), k = "inf": +/-Infinity with sign  *)
(*              v, k = "nan": NaN, k = "str": an array element that is not *)
(*              a number at all (a string such as "a").                    *)
(* A similarity is kept exactly: dot / (sqrt(nA) * sqrt(nB)) is the record *)
(* [k |-> "val", num |-> sgn(dot) * dot^2, den |-> nA * nB] in lowest      *)
(* terms (its signed square), or [k |-> "nan"].  x |-> sgn(x) * x^2 is     *)
(* strictly increasing, so comparisons of signed squares are comparisons   *)
(* of the similarities.  Rounding of IEEE doubles is not modelled.         *)
(***************************************************************************)
EXTENDS Integers, Sequences, FiniteSets, TLC

\* ------------------------------------------------------------------ bounds
\* Most rows the chunks table holds.
MaxRows == 3
\* Largest k / limit a retrieval call is given.
MaxK == 2
\* Longest vector given to a similarity function or to the codec on its own.
MaxLen == 2
\* Longest text given to splitByParagraphs (characters).
MaxParagraphText == 7
\* Longest text given to splitByCharacterCount (characters).
MaxCharacterText == 4
\* Largest chunkSize and largest maxParagraphsPerChunk.
MaxChunkSize == 3
\* Chunks the array holds when the process runs out of memory.
MaxChunks == 9
\* Most chunks in one storeDocumentWithChunks whose statements are followed.
MaxStoredChunks == 2
\* Most chunk rows in the store whose statements are followed.
MaxStoredRows == 4
\* Most documents in the store whose statements are followed.
MaxStoredDocuments == 3

\* ----------------------------------------------------------------- numbers
Fin(n) == [k |-> "fin", v |-> n]
Inf(s) == [k |-> "inf", v |-> s]
NaN == [k |-> "nan", v |-> 0]
NonNum == [k |-> "str", v |-> 0]

Sgn(n) == IF n > 0 THEN 1 ELSE IF n < 0 THEN -1 ELSE 0
Abs(n) == IF n < 0 THEN -n ELSE n
Min(a, b) == IF a < b THEN a ELSE b
Max(a, b) == IF a > b THEN a ELSE b

RECURSIVE GCD(_, _)
GCD(a, b) == IF b = 0 THEN a ELSE GCD(b, a % b)

\* ToNumber of an array element, as the Float32Array constructor applies it.
ToNumber(x) == IF x.k = "str" THEN NaN ELSE x

\* x * y on doubles.
Mul(x, y) ==
  IF x.k = "nan" \/ y.k = "nan" THEN NaN
  ELSE IF x.k = "fin" /\ y.k = "fin" THEN Fin(x.v * y.v)
  ELSE IF (x.k = "fin" /\ x.v = 0) \/ (y.k = "fin" /\ y.v = 0) THEN NaN
  ELSE Inf(Sgn(x.v) * Sgn(y.v))

\* x + y on doubles.
Add(x, y) ==
  IF x.k = "nan" \/ y.k = "nan" THEN NaN
  ELSE IF x.k = "fin" /\ y.k = "fin" THEN Fin(x.v + y.v)
  ELSE IF x.k = "inf" /\ y.k = "inf" THEN (IF x.v = y.v THEN x ELSE NaN)
  ELSE IF x.k = "inf" THEN x ELSE y

\* x === 0
IsZero(x) == x.k = "fin" /\ x.v = 0

\* ------------------------------------------------------------ similarities
SimNaN == [k |-> "nan", num |-> 0, den |-> 1]
SimVal(n, d) == [k |-> "val", num |-> n, den |-> d]
SimZero == SimVal(0, 1)
SimOne == SimVal(1, 1)

\* dot / (sqrt(nA) * sqrt(nB)) for finite dot and finite nA, nB > 0.
Ratio(dot, nn) ==
  LET g == GCD(dot * dot, nn)
  IN SimVal(Sgn(dot) * ((dot * dot) \div g), nn \div g)

\* dot / (sqrt(nA) * sqrt(nB)) on doubles, nA and nB being sums of squares
\* that are not zero.
Quotient(dot, nA, nB) ==
  IF dot.k = "nan" \/ nA.k = "nan" \/ nB.k = "nan" THEN SimNaN
  ELSE IF nA.k = "inf" \/ nB.k = "inf"
       THEN (IF dot.k = "fin" THEN SimZero ELSE SimNaN)
  ELSE IF dot.k = "inf" THEN SimNaN
  ELSE Ratio(dot.v, nA.v * nB.v)

\* a > b on similarities (false when either is NaN).
SimGT(a, b) ==
  /\ a.k = "val"
  /\ b.k = "val"
  /\ a.num * b.den > b.num * a.den

\* a >= b on similarities (false when either is NaN, as in JavaScript).
SimGE(a, b) ==
  /\ a.k = "val"
  /\ b.k = "val"
  /\ a.num * b.den >= b.num * a.den

\* a < b on similarities (false when either is NaN).
SimLT(a, b) ==
  /\ a.k = "val"
  /\ b.k = "val"
  /\ a.num * b.den < b.num * a.den

\* ----------------------------------------------------------- JS values
\* A JavaScript value as the retrieval code can meet it: null/undefined, a
\* number, a plain object, or an array of elements.
JsNull == [t |-> "null", n |-> 0, a |-> <<>>]
JsNum(number) == [t |-> "num", n |-> number, a |-> <<>>]
JsObj == [t |-> "obj", n |-> 0, a |-> <<>>]
JsArr(elements) == [t |-> "arr", n |-> 0, a |-> elements]

\* !x is false
Truthy(x) == x.t \notin {"null"} /\ ~(x.t = "num" /\ x.n = 0)

\* Array.isArray(x)
IsArray(x) == x.t = "arr"

\* Array.isArray(x) ? x : Array.from(x); a number or a plain object has no
\* length and no iterator, and Array.from gives [].
ArrayFrom(x) == IF IsArray(x) THEN x.a ELSE <<>>

\* new Float32Array(x): an array is converted element by element, a number
\* n gives n zeros, null and undefined give the empty array.
Float32From(x) ==
  IF x.t = "arr" THEN [i \in 1..Len(x.a) |-> ToNumber(x.a[i])]
  ELSE IF x.t = "num" THEN [i \in 1..Max(x.n, 0) |-> Fin(0)]
  ELSE <<>>

\* v[i] used in arithmetic: an index past the end reads undefined, which
\* the multiplication turns into NaN.
At(v, i) == IF i <= Len(v) THEN v[i] ELSE NaN

\* The three accumulators of the similarity loops over indices 1..n.
RECURSIVE DotUpTo(_, _, _)
DotUpTo(a, b, n) ==
  IF n = 0 THEN Fin(0) ELSE Add(DotUpTo(a, b, n - 1), Mul(At(a, n), At(b, n)))

\* --------------------------------------------------- similarity functions
\* vecA.some(v => typeof v !== 'number' || isNaN(v))
SomeNonNumeric(v) == \E i \in 1..Len(v) : v[i].k \in {"str", "nan"}

\* cosineSimilarity of retrieval.js.  Every rejected input is logged with
\* console.error and answered with 0.
cosineSimilarity(vectorA, vectorB) ==
  IF ~Truthy(vectorA) THEN SimZero
  ELSE IF ~Truthy(vectorB) THEN SimZero
  ELSE
    LET vecA == ArrayFrom(vectorA)
        vecB == ArrayFrom(vectorB)
        n == Len(vecA)
    IN IF Len(vecA) # Len(vecB) THEN SimZero
       ELSE IF SomeNonNumeric(vecA) \/ SomeNonNumeric(vecB) THEN SimZero
       ELSE
         LET dotProduct == DotUpTo(vecA, vecB, n)
             normA == DotUpTo(vecA, vecA, n)
             normB == DotUpTo(vecB, vecB, n)
         IN IF IsZero(normA) \/ IsZero(normB) THEN SimZero
            ELSE Quotient(dotProduct, normA, normB)

\* A calculateCosineSimilarity that guards the first norm only: with a zero
\* second norm it divides a zero or NaN dot product by zero.
calculateCosineSimilarityFirstNormOnly(embedding1, embedding2) ==
  LET n == Len(embedding1)
      dotProduct == DotUpTo(embedding1, embedding2, n)
      norm1 == DotUpTo(embedding1, embedding1, n)
      norm2 == DotUpTo(embedding2, embedding2, n)
  IN IF IsZero(norm1) THEN SimZero
     ELSE IF IsZero(norm2) THEN SimNaN
     ELSE Quotient(dotProduct, norm1, norm2)

\* calculateCosineSimilarity of vectorStorage.js: the loop runs over the
\* indices of embedding1 only, and nothing is validated.  Math.sqrt keeps
\* zero, NaN and Infinity, so the tests on the roots are tests on the sums.
calculateCosineSimilarity(embedding1, embedding2) ==
  LET n == Len(embedding1)
      dotProduct == DotUpTo(embedding1, embedding2, n)
      norm1 == DotUpTo(embedding1, embedding1, n)
      norm2 == DotUpTo(embedding2, embedding2, n)
  IN IF IsZero(norm1) \/ IsZero(norm2) THEN SimZero
     ELSE Quotient(dotProduct, norm1, norm2)

\* cosineSimilarity of step-02/embedding_test.js: the dot product runs over
\* the indices of vecA, each magnitude over its own vector, and the quotient
\* is returned unguarded.  When a magnitude is 0 the dot product is 0 or NaN
\* and the other magnitude is not zero, so the quotient is 0 / 0 or has a
\* NaN operand: NaN either way.
cosineSimilarity_step02(vecA, vecB) ==
  LET dotProduct == DotUpTo(vecA, vecB, Len(vecA))
      magnitudeA == DotUpTo(vecA, vecA, Len(vecA))
      magnitudeB == DotUpTo(vecB, vecB, Len(vecB))
  IN IF IsZero(magnitudeA) \/ IsZero(magnitudeB) THEN SimNaN
     ELSE Quotient(dotProduct, magnitudeA, magnitudeB)

\* -------------------------------------------------------- stored values
\* The value of chunks.embedding as better-sqlite3 hands it to the code:
\* NULL, a TEXT value (string s), a BLOB (w: its complete 4-byte groups read
\* as little-endian float32 values, x: the 0..3 bytes left over), or an
\* INTEGER (n).  The column is declared BLOB, which stores any of them.
DbNull == [t |-> "null", s |-> "", w |-> <<>>, x |-> 0, n |-> 0]
DbText(text) == [t |-> "text", s |-> text, w |-> <<>>, x |-> 0, n |-> 0]
DbBlob(words, extra) == [t |-> "blob", s |-> "", w |-> words, x |-> extra, n |-> 0]
DbInt(number) == [t |-> "int", s |-> "", w |-> <<>>, x |-> 0, n |-> number]

\* The texts of the model.
Texts == {"oops", "42", "null", "[1,\"a\"]", "[1,0]"}

\* JSON.parse(s) on the texts of the model: ok = FALSE is a SyntaxError.
JsonParse(s) ==
  CASE s = "42" -> [ok |-> TRUE, val |-> JsNum(42)]
    [] s = "null" -> [ok |-> TRUE, val |-> JsNull]
    [] s = "[1,\"a\"]" -> [ok |-> TRUE, val |-> JsArr(<<Fin(1), NonNum>>)]
    [] s = "[1,0]" -> [ok |-> TRUE, val |-> JsArr(<<Fin(1), Fin(0)>>)]
    [] s = "[]" -> [ok |-> TRUE, val |-> JsArr(<<>>)]
    [] s = "[0]" -> [ok |-> TRUE, val |-> JsArr(<<Fin(0)>>)]
    [] s = "[1]" -> [ok |-> TRUE, val |-> JsArr(<<Fin(1)>>)]
    [] s = "[0,0]" -> [ok |-> TRUE, val |-> JsArr(<<Fin(0), Fin(0)>>)]
    [] s = "[0,1]" -> [ok |-> TRUE, val |-> JsArr(<<Fin(0), Fin(1)>>)]
    [] s = "[1,1]" -> [ok |-> TRUE, val |-> JsArr(<<Fin(1), Fin(1)>>)]
    [] OTHER -> [ok |-> FALSE, val |-> JsNull]

\* Buffer.from(s).byteLength: the texts are ASCII, one byte per character.
Utf8Length(s) ==
  CASE s = "oops" -> 4
    [] s = "42" -> 2
    [] s = "null" -> 4
    [] s = "[1,\"a\"]" -> 7
    [] s = "[1,0]" -> 5
    [] s = "[]" -> 2
    [] s \in {"[0]", "[1]"} -> 3
    [] s \in {"[0,0]", "[0,1]", "[1,1]"} -> 5
    [] OTHER -> 0

\* Four ASCII bytes read as a little-endian float32: the sign bit is clear
\* and the exponent field is 2 * (last byte), between 64 and 252, so the
\* value is finite and positive.  No text of the model has two such groups,
\* so only the direction of a one-element vector matters and the magnitude
\* is taken as 1.
AsciiWord == Fin(1)

\* The complete 4-byte groups of Buffer.from(s), as float32 values.
Utf8Words(s) == [i \in 1..(Utf8Length(s) \div 4) |-> AsciiWord]

\* if (chunk.embedding): NULL, the empty string and 0 are falsy.
StoredTruthy(e) ==
  /\ e.t # "null"
  /\ ~(e.t = "text" /\ e.s = "")
  /\ ~(e.t = "int" /\ e.n = 0)

\* Buffer.from(value): a string gives its UTF-8 bytes, a Buffer a copy, and
\* a number a TypeError (ok = FALSE).
BufferFrom(e) ==
  IF e.t = "text"
    THEN [ok |-> TRUE, byteLength |-> Utf8Length(e.s), w |-> Utf8Words(e.s)]
  ELSE IF e.t = "blob"
    THEN [ok |-> TRUE, byteLength |-> 4 * Len(e.w) + e.x, w |-> e.w]
  ELSE [ok |-> FALSE, byteLength |-> 0, w |-> <<>>]

\* new Float32Array(buf.buffer, buf.byteOffset, buf.byteLength / 4): the
\* length argument goes through ToIndex, which drops the fraction, and the
\* view takes that many floats from the start of the bytes.
Float32View(buf) == SubSeq(buf.w, 1, buf.byteLength \div 4)

\* Buffer.from(embedding): the array read as bytes, one byte per element,
\* instead of four bytes per float.
EncodeUint8(embedding) ==
  DbBlob([i \in 1..(Len(ArrayFrom(embedding)) \div 4) |-> Fin(0)],
         Len(ArrayFrom(embedding)) % 4)

\* Buffer.from(new Float32Array(embedding).buffer) and the Float32Array that
\* storeChunk binds: the packed float32 blob of an array of numbers.
EncodeFloat32(embedding) == DbBlob(Float32From(embedding), 0)

\* The two decoding branches of retrieveTopK's map callback for a value that
\* is present: skip = TRUE where the callback returns null from a catch, else
\* val is the value handed to cosineSimilarity.
DecodePresent(e) ==
  IF e.t = "text"
    THEN LET p == JsonParse(e.s)
         IN IF p.ok THEN [skip |-> FALSE, val |-> p.val]
            ELSE [skip |-> TRUE, val |-> JsNull]
    ELSE LET buf == BufferFrom(e)
         IN IF buf.ok THEN [skip |-> FALSE, val |-> JsArr(Float32View(buf))]
            ELSE [skip |-> TRUE, val |-> JsNull]

\* A decoding that scores a missing embedding as an empty vector instead of
\* skipping the chunk.
DecodeMissingAsEmpty(e) ==
  IF StoredTruthy(e) THEN DecodePresent(e)
  ELSE [skip |-> FALSE, val |-> JsArr(<<>>)]

\* if (chunk.embedding) { ... } else { return null }: the decoding of
\* retrieveTopK's map callback.
DecodeEmbedding(e) ==
  IF StoredTruthy(e) THEN DecodePresent(e)
  ELSE [skip |-> TRUE, val |-> JsNull]

\* ------------------------------------------------------------- top-K
\* A comparator that puts the later-enumerated of two equal scores first.
CompareDescLaterFirst(a, b) ==
  IF a.similarity.k = "nan" \/ b.similarity.k = "nan" THEN 0
  ELSE IF a.similarity.num * b.similarity.den < b.similarity.num * a.similarity.den THEN 1
  ELSE IF b.similarity.num * a.similarity.den < a.similarity.num * b.similarity.den THEN -1
  ELSE IF a.id > b.id THEN -1
  ELSE 1

\* The comparator (a, b) => b.similarity - a.similarity, as Array.prototype
\* .sort reads it: a NaN difference counts as 0.
CompareDesc(a, b) ==
  IF a.similarity.k = "nan" \/ b.similarity.k = "nan" THEN 0
  ELSE IF SimLT(a.similarity, b.similarity) THEN 1
  ELSE IF SimLT(b.similarity, a.similarity) THEN -1
  ELSE 0

\* Where a binary insertion puts pivot into the sorted prefix s: after every
\* element it does not compare below.
RECURSIVE InsertionPoint(_, _, _, _)
InsertionPoint(s, pivot, left, right) ==
  IF left >= right THEN left
  ELSE LET mid == left + ((right - left) \div 2)
       IN IF CompareDesc(pivot, s[mid + 1]) < 0
            THEN InsertionPoint(s, pivot, left, mid)
            ELSE InsertionPoint(s, pivot, mid + 1, right)

\* Array.prototype.sort with CompareDesc, a stable sort.  With a consistent
\* comparator every stable sort gives this order; with NaN similarities the
\* comparator is not consistent, the order is implementation-defined, and
\* the model takes the order of a binary insertion sort.
RECURSIVE SortUpTo(_, _)
SortUpTo(s, n) ==
  IF n = 0 THEN <<>>
  ELSE LET sorted == SortUpTo(s, n - 1)
           at == InsertionPoint(sorted, s[n], 0, n - 1)
       IN SubSeq(sorted, 1, at) \o <<s[n]>> \o SubSeq(sorted, at + 1, n - 1)

SortBySimilarity(s) == SortUpTo(s, Len(s))

\* Array.prototype.slice(0, k): a negative k counts from the end.
Slice0(s, k) ==
  IF k < 0 THEN SubSeq(s, 1, Max(Len(s) + k, 0))
  ELSE SubSeq(s, 1, Min(k, Len(s)))

\* The rows of chunks JOIN documents, in rowid order.
JoinedRows(chunkRows, documentCount) ==
  SelectSeq(chunkRows, LAMBDA c : c.document_id \in 1..documentCount)

\* The map callback of retrieveTopK for one row.
ScoreChunk(queryEmbedding, chunk) ==
  LET d == DecodeEmbedding(chunk.embedding)
  IN IF d.skip THEN [skip |-> TRUE, id |-> chunk.id, documentId |-> chunk.document_id,
                     similarity |-> SimZero]
     ELSE [skip |-> FALSE, id |-> chunk.id, documentId |-> chunk.document_id,
           similarity |-> cosineSimilarity(queryEmbedding, d.val)]

\* One element of retrieveTopK's result.
Scored(c) == [id |-> c.id, documentId |-> c.documentId, similarity |-> c.similarity]

\* chunks.map(...).filter(chunk => chunk !== null)
ChunksWithSimilarity(queryEmbedding, rows) ==
  LET mapped == [i \in 1..Len(rows) |-> ScoreChunk(queryEmbedding, rows[i])]
      kept == SelectSeq(mapped, LAMBDA c : ~c.skip)
  IN [i \in 1..Len(kept) |-> Scored(kept[i])]

\* if (!queryEmbedding || !Array.isArray(queryEmbedding)) throw
InvalidQueryEmbedding(queryEmbedding) ==
  ~Truthy(queryEmbedding) \/ ~IsArray(queryEmbedding)

\* retrieveTopK(queryEmbedding, k) over the rows the query returns.
TopK(queryEmbedding, k, rows) ==
  Slice0(SortBySimilarity(ChunksWithSimilarity(queryEmbedding, rows)), k)

\* The rows findSimilarChunks selects: WHERE c.embedding IS NOT NULL.
RowsWithEmbedding(rows) == SelectSeq(rows, LAMBDA c : c.embedding.t # "null")

\* The map callback of findSimilarChunks for one row; Buffer.from throws
\* on a number and nothing catches it.
SimilarChunk(queryEmbeddingArray, chunk) ==
  LET buf == BufferFrom(chunk.embedding)
  IN [threw |-> ~buf.ok, id |-> chunk.id,
      similarity |-> IF buf.ok
                       THEN calculateCosineSimilarity(queryEmbeddingArray, Float32View(buf))
                       ELSE SimZero]

\* findSimilarChunks(queryEmbedding, limit, similarityThreshold) over the
\* rows of the table: threw = TRUE when the map callback throws.
SimilarChunks(queryEmbedding, limit, similarityThreshold, rows) ==
  LET sel == RowsWithEmbedding(rows)
      queryEmbeddingArray == Float32From(queryEmbedding)
      mapped == [i \in 1..Len(sel) |-> SimilarChunk(queryEmbeddingArray, sel[i])]
      kept == SelectSeq(mapped, LAMBDA c : SimGE(c.similarity, similarityThreshold))
      items == [i \in 1..Len(kept) |-> [id |-> kept[i].id, similarity |-> kept[i].similarity]]
  IN IF \E i \in 1..Len(mapped) : mapped[i].threw
       THEN [threw |-> TRUE, result |-> <<>>]
       ELSE [threw |-> FALSE, result |-> Slice0(SortBySimilarity(items), limit)]

\* ------------------------------------------------------------ the state
VARIABLES
  documents,   \* number of rows of table documents (ids 1..documents)
  chunks,      \* rows of table chunks, in rowid order
  dbInstance,  \* the singleton connection of database.js: "null" or "open"
  call,        \* the retrieval call whose outcome its caller is holding
  sim,         \* the last call of a similarity function on its own
  last,        \* the outcome a caller kept of an earlier retrieval call
  rag,         \* the processQuery call in progress and its outcome
  emb,         \* the embedding model singleton and the getInstance calls
  codec,       \* an embedding on its way through encoding and decoding
  connections, \* every connection initDatabase created: "open" or "closed"
  loaderDb,    \* the connection the module-level db of loadRagMonsters.js holds
  dbUse,       \* the last statement issued on a connection
  chunker,     \* the chunking loop in progress
  tx           \* the storeDocumentWithChunks transaction in progress

\* The variables of the retrieval engine, and those of its surroundings.
core == <<documents, chunks, dbInstance, call, sim, last>>
side == <<rag, emb, codec, connections, loaderDb, dbUse, chunker, tx>>
vars == <<core, side>>

\* Embeddings the store path is given: the arrays of numbers an embedding
\* model or a caller of the exported storeDocumentWithChunks passes, and
\* null where generateChunkEmbeddingsWithMetadata recorded a failure.
StoreEmbeddings ==
  { JsNull,
    JsArr(<<Fin(1), Fin(0)>>), JsArr(<<Fin(0), Fin(1)>>),
    JsArr(<<Fin(-1), Fin(0)>>), JsArr(<<Fin(0), Fin(0)>>),
    JsArr(<<Fin(1)>>), JsArr(<<Fin(1), Fin(0), Fin(1)>>),
    JsArr(<<Inf(1), Fin(0)>>) }

\* Values of chunks.embedding that no store path of the repository writes
\* but the retrieval code branches on: TEXT values, a BLOB whose length is
\* not a multiple of 4 (10 bytes), an INTEGER.
ForeignEmbeddings ==
  { DbText(t) : t \in Texts } \cup { DbBlob(<<Fin(1), Fin(0)>>, 2), DbInt(7) }

\* Query embeddings a retrieval call is given.
Queries ==
  { JsNull, JsNum(2), JsArr(<<>>), JsArr(<<NonNum, Fin(0)>>),
    JsArr(<<Fin(1), Fin(0)>>), JsArr(<<Fin(0), Fin(1)>>), JsArr(<<Fin(1)>>) }

\* k / limit of a retrieval call.
Ks == (-1)..MaxK

\* similarityThreshold of findSimilarChunks: left out by the caller, or 0.
\* The default parameter value 0.7 replaces an argument that is left out.
DefaultThreshold == SimVal(49, 100)
Omitted == [k |-> "undefined", num |-> 0, den |-> 1]
Thresholds == { Omitted, SimZero }
WithDefault(similarityThreshold) ==
  IF similarityThreshold = Omitted THEN DefaultThreshold ELSE similarityThreshold

NoCall ==
  [fn |-> "none", query |-> JsNull, k |-> 0, threshold |-> SimZero,
   thresholdGiven |-> FALSE, threw |-> FALSE, fetched |-> FALSE, rows |-> <<>>, result |-> <<>>]

NoSim ==
  [fn |-> "none", vectorA |-> JsNull, vectorB |-> JsNull, threw |-> FALSE,
   out |-> SimZero]

\* Nothing kept yet.
NoLast == [call |-> NoCall, chunks |-> <<>>, documents |-> 0]

\* The surroundings at rest.
NoOut == [settled |-> "pending", success |-> FALSE, chunks |-> <<>>, error |-> ""]
NoRag ==
  [pc |-> "idle", query |-> [t |-> "undefined", s |-> ""], k |-> 0,
   relevantChunks |-> <<>>, prompt |-> "none", failed |-> "", out |-> NoOut]
\* Callers of getEmbedding that can be in flight together.
MaxCallers == 3
Callers == 1..MaxCallers
NoEmb ==
  [model |-> 0, loads |-> 0, pc |-> [p \in Callers |-> "idle"],
   got |-> [p \in Callers |-> 0]]
NoCodec == [pc |-> "idle", by |-> "none", v |-> <<>>, stored |-> DbNull, decoded |-> JsNull]
\* Most connections one execution creates.
MaxConnections == 3
NoUse == [op |-> "none", by |-> "none", handle |-> 0, state |-> "none",
          previous |-> 0, previousState |-> "none", returned |-> 0]
NoChunker == [fn |-> "none", pc |-> "idle", text |-> <<>>, size |-> 0,
              overlap |-> 0, startIndex |-> 0, chunks |-> <<>>]
NoStore == [documents |-> 0, rows |-> <<>>]
NoTx == [pc |-> "idle", store |-> NoStore, before |-> NoStore,
         doc |-> "none", input |-> <<>>, documentId |-> 0, chunkIds |-> <<>>]

Init ==
  /\ documents = 0
  /\ chunks = <<>>
  /\ dbInstance = "null"
  /\ call = NoCall
  /\ sim = NoSim
  /\ last = NoLast
  /\ rag = NoRag
  /\ emb = NoEmb
  /\ codec = NoCodec
  /\ connections = <<>>
  /\ loaderDb = 0
  /\ dbUse = NoUse
  /\ chunker = NoChunker
  /\ tx = NoTx

\* storeChunk's conversion: embedding ? new Float32Array(embedding) : null
StoredForm(embedding) ==
  IF Truthy(embedding) THEN EncodeFloat32(embedding) ELSE DbNull

\* The rows storeDocumentWithChunks appends for document documentId.
RECURSIVE StoreChunks(_, _, _)
StoreChunks(rows, embeddings, documentId) ==
  IF embeddings = <<>> THEN rows
  ELSE StoreChunks(
         Append(rows, [id |-> Len(rows) + 1, document_id |-> documentId,
                       embedding |-> StoredForm(Head(embeddings))]),
         Tail(embeddings), documentId)

\* storeDocumentWithChunks(document, chunks): one transaction that inserts
\* the document row and one chunk row per chunk.
storeDocumentWithChunks(embeddings) ==
  /\ call.fn = "none"
  /\ Len(chunks) + Len(embeddings) <= MaxRows
  /\ dbInstance' = "open"
  /\ documents' = documents + 1
  /\ chunks' = StoreChunks(chunks, embeddings, documents + 1)
  /\ UNCHANGED <<call, sim, last, side>>

\* A document with one chunk row written into the database file by another
\* writer (initDatabase opens the file as it finds it).
ForeignInsert(e) ==
  /\ call.fn = "none"
  /\ Len(chunks) + 1 <= MaxRows
  /\ documents' = documents + 1
  /\ chunks' = Append(chunks, [id |-> Len(chunks) + 1, document_id |-> documents + 1,
                               embedding |-> e])
  /\ UNCHANGED <<dbInstance, call, sim, last, side>>

\* A retrieveTopK whose rows depend on the connection: a connection that
\* the call itself has to open sees no rows.
retrieveTopKOnOpenConnection(queryEmbedding, k) ==
  LET rows == IF dbInstance = "open" THEN JoinedRows(chunks, documents) ELSE <<>>
  IN /\ call.fn = "none"
     /\ IF InvalidQueryEmbedding(queryEmbedding)
          THEN /\ call' = [fn |-> "retrieveTopK", query |-> queryEmbedding, k |-> k,
                           threshold |-> SimZero, thresholdGiven |-> FALSE,
                           threw |-> TRUE, fetched |-> FALSE,
                           rows |-> <<>>, result |-> <<>>]
               /\ UNCHANGED dbInstance
          ELSE /\ dbInstance' = "open"
               /\ call' = [fn |-> "retrieveTopK", query |-> queryEmbedding, k |-> k,
                           threshold |-> SimZero, thresholdGiven |-> FALSE,
                           threw |-> FALSE, fetched |-> TRUE,
                           rows |-> rows, result |-> TopK(queryEmbedding, k, rows)]
     /\ UNCHANGED <<documents, chunks, sim, last, side>>

\* retrieveTopK(queryEmbedding, k)
retrieveTopK(queryEmbedding, k) ==
  /\ call.fn = "none"
  /\ IF InvalidQueryEmbedding(queryEmbedding)
       THEN /\ call' = [fn |-> "retrieveTopK", query |-> queryEmbedding, k |-> k,
                        threshold |-> SimZero, thresholdGiven |-> FALSE,
                        threw |-> TRUE, fetched |-> FALSE,
                        rows |-> <<>>, result |-> <<>>]
            /\ UNCHANGED dbInstance
       ELSE /\ dbInstance' = "open"
            /\ call' = [fn |-> "retrieveTopK", query |-> queryEmbedding, k |-> k,
                        threshold |-> SimZero, thresholdGiven |-> FALSE,
                        threw |-> FALSE, fetched |-> TRUE,
                        rows |-> JoinedRows(chunks, documents),
                        result |-> TopK(queryEmbedding, k, JoinedRows(chunks, documents))]
  /\ UNCHANGED <<documents, chunks, sim, last, side>>

\* A findSimilarChunks that deletes the chunks it does not select.
findSimilarChunksPruning(queryEmbedding, limit, similarityThreshold) ==
  LET r == SimilarChunks(queryEmbedding, limit, WithDefault(similarityThreshold),
                         JoinedRows(chunks, documents))
  IN /\ call.fn = "none"
     /\ dbInstance' = "open"
     /\ call' = [fn |-> "findSimilarChunks", query |-> queryEmbedding, k |-> limit,
                 threshold |-> WithDefault(similarityThreshold),
                 thresholdGiven |-> similarityThreshold # Omitted, threw |-> r.threw,
                 fetched |-> TRUE,
                 rows |-> JoinedRows(chunks, documents), result |-> r.result]
     /\ chunks' = RowsWithEmbedding(chunks)
     /\ UNCHANGED <<documents, sim, last, side>>

\* findSimilarChunks(queryEmbedding, limit, similarityThreshold)
findSimilarChunks(queryEmbedding, limit, similarityThreshold) ==
  LET r == SimilarChunks(queryEmbedding, limit, WithDefault(similarityThreshold),
                         JoinedRows(chunks, documents))
  IN /\ call.fn = "none"
     /\ dbInstance' = "open"
     /\ call' = [fn |-> "findSimilarChunks", query |-> queryEmbedding, k |-> limit,
                 threshold |-> WithDefault(similarityThreshold),
                 thresholdGiven |-> similarityThreshold # Omitted, threw |-> r.threw, fetched |-> TRUE,
                 rows |-> JoinedRows(chunks, documents), result |-> r.result]
     /\ UNCHANGED <<documents, chunks, sim, last, side>>

\* dbInstance.close() on the connection the singleton holds, the last one
\* initDatabase created (none is recorded where connections are not traced).
Closed(conns) ==
  IF Len(conns) = 0 THEN conns ELSE [conns EXCEPT ![Len(conns)] = "closed"]

\* A closeDatabase that closes the connection and keeps it in dbInstance.
closeDatabaseKeepingInstance ==
  /\ call.fn = "none"
  /\ IF dbInstance # "null"
       THEN /\ connections' = Closed(connections)
            /\ UNCHANGED dbInstance
       ELSE UNCHANGED <<dbInstance, connections>>
  /\ UNCHANGED <<documents, chunks, call, sim, last>>
  /\ UNCHANGED <<rag, emb, codec, loaderDb, dbUse, chunker, tx>>

\* closeDatabase(): if (dbInstance) { dbInstance.close(); dbInstance = null }
closeDatabase ==
  /\ call.fn = "none"
  /\ IF dbInstance # "null"
       THEN /\ dbInstance' = "null"
            /\ connections' = Closed(connections)
       ELSE UNCHANGED <<dbInstance, connections>>
  /\ UNCHANGED <<documents, chunks, call, sim, last>>
  /\ UNCHANGED <<rag, emb, codec, loaderDb, dbUse, chunker, tx>>

\* The caller of the retrieval function takes what the call returned or
\* threw (the route handlers answer the request with it); the retrieval
\* functions are synchronous, so nothing else runs between a call and this.
Respond ==
  /\ call.fn # "none"
  /\ call' = NoCall
  /\ UNCHANGED <<documents, chunks, dbInstance, sim, last, side>>

Next ==
  \/ \E e \in StoreEmbeddings : storeDocumentWithChunks(<<e>>)
  \/ \E e \in ForeignEmbeddings : ForeignInsert(e)
  \/ \E q \in Queries, k \in Ks : retrieveTopK(q, k)
  \/ \E q \in Queries, k \in Ks, t \in Thresholds : findSimilarChunks(q, k, t)
  \/ closeDatabase
  \/ Respond

Spec == Init /\ [][Next]_vars

\* ------------------------------------------- retrieval calls compared
\* The caller keeps what the call returned or threw, next to the tables the
\* call ran against, to compare it with a later call (the test scripts run
\* their queries one after the other against the same database).
Remember ==
  /\ call.fn # "none"
  /\ last' = [call |-> call, chunks |-> chunks, documents |-> documents]
  /\ call' = NoCall
  /\ UNCHANGED <<documents, chunks, dbInstance, sim, side>>

\* The embeddings, queries and k of the compared calls.
HistEmbeddings ==
  { JsArr(<<Fin(1), Fin(0)>>), JsArr(<<Fin(0), Fin(1)>>), JsArr(<<Inf(1), Fin(0)>>) }
HistForeign == { DbInt(7) }
HistQueries == { JsArr(<<Fin(1), Fin(0)>>), JsArr(<<Fin(0), Fin(1)>>) }
HistKs == 1..MaxK

HistNext ==
  \/ \E e \in HistEmbeddings : storeDocumentWithChunks(<<e>>)
  \/ \E e \in HistForeign : ForeignInsert(e)
  \/ \E q \in HistQueries, k \in HistKs : retrieveTopK(q, k)
  \/ \E q \in HistQueries, k \in HistKs, t \in Thresholds : findSimilarChunks(q, k, t)
  \/ closeDatabase
  \/ Respond
  \/ Remember

SpecHist == Init /\ [][HistNext]_vars

\* ------------------------------------------------------- processQuery
\* Queries given to processQuery: the empty string, a number, a question.
RagQueries ==
  { [t |-> "string", s |-> ""], [t |-> "number", s |-> ""],
    [t |-> "string", s |-> "What is markdown?"] }

\* options.k: left out (0 stands for every falsy value), 1 or -1.
RagKs == { 0, 1, -1 }

\* Embeddings the model returns, and the embeddings stored before the query.
RagEmbeddings == { JsArr(<<Fin(1), Fin(0)>>), JsArr(<<Fin(0), Fin(1)>>) }
RagStored == { JsNull, JsArr(<<Fin(1), Fin(0)>>) }

\* A processQuery that lets the error escape: the promise is rejected.
PropagateError(message) ==
  [settled |-> "rejected", success |-> FALSE, chunks |-> <<>>, error |-> message]

\* The catch block of processQuery for a thrown Error: the promise is
\* fulfilled with success: false and the error's message.
CatchError(message) ==
  [settled |-> "fulfilled", success |-> FALSE, chunks |-> <<>>, error |-> message]

\* The two return statements of the try block.
ReturnSuccess(relevantChunks) ==
  [settled |-> "fulfilled", success |-> TRUE, chunks |-> relevantChunks, error |-> ""]

\* if (!text || typeof text !== 'string') of getEmbedding
InvalidText(text) == text.t # "string" \/ text.s = ""

\* processQuery(query, options) up to its first await: getEmbedding throws
\* on an invalid text, else the call waits for the model.
processQuery(query, k) ==
  /\ rag.pc = "idle"
  /\ IF InvalidText(query)
       THEN rag' = [rag EXCEPT !.pc = "done", !.query = query, !.k = k,
                               !.failed = "Input must be a non-empty string",
                               !.out = CatchError("Input must be a non-empty string")]
       ELSE rag' = [rag EXCEPT !.pc = "embedding", !.query = query, !.k = k]
  /\ UNCHANGED <<core, emb, codec, connections, loaderDb, dbUse, chunker, tx>>

\* The model failed: getEmbedding rejects and the catch block answers.
EmbeddingFails ==
  /\ rag.pc = "embedding"
  /\ rag' = [rag EXCEPT !.pc = "done", !.failed = "embedding failed",
                        !.out = CatchError("embedding failed")]
  /\ UNCHANGED <<core, emb, codec, connections, loaderDb, dbUse, chunker, tx>>

\* The model answered: k = options.k || 3, retrieveTopK runs at once, and
\* the call waits for the LLM with the prompt it built.
EmbeddingReturns(queryEmbedding) ==
  LET k == IF rag.k = 0 THEN 3 ELSE rag.k
      relevantChunks == TopK(queryEmbedding, k, JoinedRows(chunks, documents))
  IN /\ rag.pc = "embedding"
     /\ dbInstance' = "open"
     /\ rag' = [rag EXCEPT !.pc = "generating", !.relevantChunks = relevantChunks,
                           !.prompt = IF Len(relevantChunks) = 0 THEN "noContext"
                                      ELSE "rag"]
     /\ UNCHANGED <<documents, chunks, call, sim, last>>
     /\ UNCHANGED <<emb, codec, connections, loaderDb, dbUse, chunker, tx>>

\* generateLlmResponse settles: it throws an Error on every failure.
LlmSettles(ok) ==
  /\ rag.pc = "generating"
  /\ IF ok
       THEN rag' = [rag EXCEPT !.pc = "done", !.out = ReturnSuccess(rag.relevantChunks)]
       ELSE rag' = [rag EXCEPT !.pc = "done",
                               !.failed = "Failed to generate LLM response",
                               !.out = CatchError("Failed to generate LLM response")]
  /\ UNCHANGED <<core, emb, codec, connections, loaderDb, dbUse, chunker, tx>>

\* The caller takes the object the promise settled with.
RagReturn ==
  /\ rag.pc = "done"
  /\ rag' = NoRag
  /\ UNCHANGED <<core, emb, codec, connections, loaderDb, dbUse, chunker, tx>>

RagNext ==
  \/ \E e \in RagStored : storeDocumentWithChunks(<<e>>)
  \/ \E q \in RagQueries, k \in RagKs : processQuery(q, k)
  \/ EmbeddingFails
  \/ \E e \in RagEmbeddings : EmbeddingReturns(e)
  \/ \E ok \in BOOLEAN : LlmSettles(ok)
  \/ RagReturn

SpecRag == Init /\ [][RagNext]_vars

\* ---------------------------------------------------- EmbeddingModel
\* static model = null is 0; the pipelines are numbered as they are created.
\* getEmbedding(text) of caller p reaches EmbeddingModel.getInstance(): the
\* test this.model === null is made at once, and a caller that finds null
\* goes on to await the import and the pipeline.
getInstance(p) ==
  /\ emb.pc[p] = "idle"
  /\ IF emb.model = 0
       THEN emb' = [emb EXCEPT !.pc[p] = "loading"]
       ELSE emb' = [emb EXCEPT !.pc[p] = "ready", !.got[p] = emb.model]
  /\ UNCHANGED <<core, rag, codec, connections, loaderDb, dbUse, chunker, tx>>

\* this.model = await pipeline(...); return this.model: the pipeline caller
\* p waited for is created and assigned, and p goes on with it.
PipelineLoaded(p) ==
  /\ emb.pc[p] = "loading"
  /\ emb' = [emb EXCEPT !.loads = emb.loads + 1, !.model = emb.loads + 1,
                        !.pc[p] = "ready", !.got[p] = emb.loads + 1]
  /\ UNCHANGED <<core, rag, codec, connections, loaderDb, dbUse, chunker, tx>>

\* getEmbedding of caller p returns its array; p may call again.
EmbeddingDone(p) ==
  /\ emb.pc[p] = "ready"
  /\ emb' = [emb EXCEPT !.pc[p] = "idle"]
  /\ UNCHANGED <<core, rag, codec, connections, loaderDb, dbUse, chunker, tx>>

EmbNext ==
  \/ \E p \in Callers : getInstance(p)
  \/ \E p \in Callers : PipelineLoaded(p)
  \/ \E p \in Callers : EmbeddingDone(p)

SpecEmb == Init /\ [][EmbNext]_vars

\* ------------------------------------------------------------- codec
\* The vectors written as JSON text, and the text JSON.stringify gives each.
JsonVectors ==
  { <<>>, <<Fin(0)>>, <<Fin(1)>>, <<Fin(0), Fin(0)>>, <<Fin(0), Fin(1)>>,
    <<Fin(1), Fin(0)>>, <<Fin(1), Fin(1)>> }

JsonStringify(v) ==
  CASE v = <<>> -> "[]"
    [] v = <<Fin(0)>> -> "[0]"
    [] v = <<Fin(1)>> -> "[1]"
    [] v = <<Fin(0), Fin(0)>> -> "[0,0]"
    [] v = <<Fin(0), Fin(1)>> -> "[0,1]"
    [] v = <<Fin(1), Fin(0)>> -> "[1,0]"
    [] v = <<Fin(1), Fin(1)>> -> "[1,1]"

\* Elements of the vectors stored as blobs: float32 values, NaN included.
CodecElems == { Fin(0), Fin(1), Fin(-1), Inf(1), NaN }

RECURSIVE CodecVectorsOfLen(_)
CodecVectorsOfLen(n) ==
  IF n = 0 THEN { <<>> }
  ELSE { Append(v, e) : v \in CodecVectorsOfLen(n - 1), e \in CodecElems }

CodecVectors == UNION { CodecVectorsOfLen(n) : n \in 0..MaxLen }

\* storeChunk binds embedding ? new Float32Array(embedding) : null.
StoreByStoreChunk(v) ==
  /\ codec.pc = "idle"
  /\ codec' = [pc |-> "stored", by |-> "storeChunk", v |-> v,
               stored |-> StoredForm(JsArr(v)), decoded |-> JsNull]
  /\ UNCHANGED <<core, rag, emb, connections, loaderDb, dbUse, chunker, tx>>

\* storeRagmonstersInDb binds Buffer.from(new Float32Array(v).buffer).
StoreByLoader(v) ==
  /\ codec.pc = "idle"
  /\ codec' = [pc |-> "stored", by |-> "storeRagmonstersInDb", v |-> v,
               stored |-> EncodeFloat32(JsArr(v)), decoded |-> JsNull]
  /\ UNCHANGED <<core, rag, emb, connections, loaderDb, dbUse, chunker, tx>>

\* A writer outside the repository stores the vector as JSON text.
StoreAsJson(v) ==
  /\ codec.pc = "idle"
  /\ codec' = [pc |-> "stored", by |-> "json", v |-> v,
               stored |-> DbText(JsonStringify(v)), decoded |-> JsNull]
  /\ UNCHANGED <<core, rag, emb, connections, loaderDb, dbUse, chunker, tx>>

\* retrieveTopK's map callback decodes the stored value; a skipped chunk
\* decodes to nothing.
DecodeStored ==
  /\ codec.pc = "stored"
  /\ codec' = [codec EXCEPT !.pc = "decoded",
                            !.decoded = IF DecodeEmbedding(codec.stored).skip THEN JsObj
                                        ELSE DecodeEmbedding(codec.stored).val]
  /\ UNCHANGED <<core, rag, emb, connections, loaderDb, dbUse, chunker, tx>>

\* The next embedding.
CodecDone ==
  /\ codec.pc = "decoded"
  /\ codec' = NoCodec
  /\ UNCHANGED <<core, rag, emb, connections, loaderDb, dbUse, chunker, tx>>

CodecNext ==
  \/ \E v \in CodecVectors : StoreByStoreChunk(v)
  \/ \E v \in CodecVectors : StoreByLoader(v)
  \/ \E v \in JsonVectors : StoreAsJson(v)
  \/ DecodeStored
  \/ CodecDone

SpecCodec == Init /\ [][CodecNext]_vars

\* ------------------------------------------------ database connections
\* The connections are numbered as initDatabase creates them; the singleton
\* holds the last one while dbInstance is not null.
CurrentConnection == IF dbInstance = "open" THEN Len(connections) ELSE 0

\* The state of connection h.
StateOf(conns, h) == IF h \in 1..Len(conns) THEN conns[h] ELSE "none"

\* getDatabase(): if (!dbInstance) dbInstance = initDatabase(); the
\* connections after the call, and the handle it returns.
Opened(conns) == IF dbInstance = "null" THEN Append(conns, "open") ELSE conns
GetDatabaseHandle == Len(Opened(connections))

\* A caller calls getDatabase() and keeps the handle for the moment.
getDatabase ==
  /\ dbInstance = "null" => Len(connections) < MaxConnections
  /\ connections' = Opened(connections)
  /\ dbInstance' = "open"
  /\ dbUse' = [op |-> "getDatabase", by |-> "getDatabase",
               handle |-> GetDatabaseHandle,
               state |-> StateOf(Opened(connections), GetDatabaseHandle),
               previous |-> dbUse.returned,
               previousState |-> StateOf(connections, dbUse.returned),
               returned |-> GetDatabaseHandle]
  /\ UNCHANGED <<documents, chunks, call, sim, last>>
  /\ UNCHANGED <<rag, emb, codec, loaderDb, chunker, tx>>

\* A function that starts with const db = getDatabase() and issues its
\* statements on db at once (retrieveTopK, findSimilarChunks, storeChunk...).
StatementViaGetDatabase ==
  /\ dbInstance = "null" => Len(connections) < MaxConnections
  /\ connections' = Opened(connections)
  /\ dbInstance' = "open"
  /\ dbUse' = [dbUse EXCEPT !.op = "statement", !.by = "getDatabase",
                            !.handle = GetDatabaseHandle,
                            !.state = StateOf(Opened(connections), GetDatabaseHandle)]
  /\ UNCHANGED <<documents, chunks, call, sim, last>>
  /\ UNCHANGED <<rag, emb, codec, loaderDb, chunker, tx>>

\* loadRagMonsters.js is imported: const db = getDatabase() at module level.
ImportLoadRagMonsters ==
  /\ loaderDb = 0
  /\ dbInstance = "null" => Len(connections) < MaxConnections
  /\ connections' = Opened(connections)
  /\ dbInstance' = "open"
  /\ loaderDb' = GetDatabaseHandle
  /\ UNCHANGED <<documents, chunks, call, sim, last>>
  /\ UNCHANGED <<rag, emb, codec, dbUse, chunker, tx>>

\* storeRagmonstersInDb(documents, chunks): db.prepare(...).run(...) on the
\* module-level db.
storeRagmonstersInDb ==
  /\ loaderDb # 0
  /\ dbUse' = [dbUse EXCEPT !.op = "statement", !.by = "storeRagmonstersInDb",
                            !.handle = loaderDb,
                            !.state = StateOf(connections, loaderDb)]
  /\ UNCHANGED <<core, rag, emb, codec, connections, loaderDb, chunker, tx>>

DbNext ==
  \/ getDatabase
  \/ StatementViaGetDatabase
  \/ ImportLoadRagMonsters
  \/ storeRagmonstersInDb
  \/ closeDatabase

SpecDb == Init /\ [][DbNext]_vars

\* --------------------------------------------------------- the chunkers
\* A text is a sequence of characters; "a" stands for any character that is
\* neither white space nor punctuation, "nl" for a newline.
SeqsUpTo(alphabet, n) == UNION { [1..m -> alphabet] : m \in 0..n }
ParagraphTexts == SeqsUpTo({"a", "nl"}, MaxParagraphText)
CharacterTexts == SeqsUpTo({"a", " ", "."}, MaxCharacterText)

\* The character at 0-based index i, "" beyond the text.
CharAt(text, i) == IF i >= 0 /\ i < Len(text) THEN text[i + 1] ELSE ""

\* text.split(/\n\s*\n/).filter(p => p.trim().length > 0).length: a
\* paragraph starts at a character that has no character before it, or two
\* newlines or more since the character before.
StartsParagraph(text, i) ==
  /\ text[i] = "a"
  /\ \A j \in 1..(i - 1) : text[j] = "a" => (\E m \in (j + 1)..(i - 1) : text[m] = "a") \/ i - j >= 3
ParagraphCount(text) == Cardinality({ i \in 1..Len(text) : StartsParagraph(text, i) })

\* text.indexOf(c + ' ', fromIndex), -1 when there is none.
IndexOfBeforeSpace(text, c, fromIndex) ==
  LET found == { i \in Max(fromIndex, 0)..(Len(text) - 2) :
                   CharAt(text, i) = c /\ CharAt(text, i + 1) = " " }
  IN IF found = {} THEN -1 ELSE CHOOSE i \in found : \A j \in found : i <= j

\* text.lastIndexOf(' ', fromIndex), -1 when there is none.
LastIndexOfSpace(text, fromIndex) ==
  LET found == { i \in 0..Min(fromIndex, Len(text) - 1) : CharAt(text, i) = " " }
  IN IF found = {} THEN -1 ELSE CHOOSE i \in found : \A j \in found : i >= j

\* How far before the end index the search for a sentence boundary starts.
SentenceLookBack == 100

\* The end index splitByCharacterCount chooses for the chunk at startIndex.
BreakPoint(text, startIndex, chunkSize) ==
  LET endIndex == startIndex + chunkSize
      sentenceEndIndices ==
        { IndexOfBeforeSpace(text, c, endIndex - SentenceLookBack) : c \in {".", "?", "!"} }
          \ { i \in (-1)..Len(text) : i = -1 \/ i >= endIndex }
      closest == CHOOSE i \in sentenceEndIndices : \A j \in sentenceEndIndices : i >= j
      spaceIndex == LastIndexOfSpace(text, endIndex)
  IN IF endIndex >= Len(text) THEN endIndex
     ELSE IF sentenceEndIndices # {} THEN closest + 2
     ELSE IF spaceIndex # -1 /\ spaceIndex > startIndex THEN spaceIndex + 1
     ELSE endIndex

\* The chunk pushed for [from, to): the index pair stands for the text.
Chunk(from, to) == <<from, to>>

\* The state after a call's checks, before the loop.
Entered(fn, text, size, overlap, units) ==
  IF Len(text) = 0
    THEN [NoChunker EXCEPT !.fn = fn, !.pc = "threw", !.text = text,
                           !.size = size, !.overlap = overlap]
  ELSE IF units <= size
    THEN [NoChunker EXCEPT !.fn = fn, !.pc = "returned", !.text = text,
                           !.size = size, !.overlap = overlap,
                           !.chunks = <<Chunk(0, units)>>]
  ELSE [NoChunker EXCEPT !.fn = fn, !.pc = "loop", !.text = text,
                         !.size = size, !.overlap = overlap]

\* splitByParagraphs(text, maxParagraphsPerChunk, paragraphOverlap) of the
\* vector-storage guide, and of utils/chunking/simpleChunker.js.
splitByParagraphs(fn, text, maxParagraphsPerChunk, paragraphOverlap) ==
  /\ chunker.pc = "idle"
  /\ chunker' = Entered(fn, text, maxParagraphsPerChunk, paragraphOverlap,
                        ParagraphCount(text))
  /\ UNCHANGED <<core, rag, emb, codec, connections, loaderDb, dbUse, tx>>

\* splitByCharacterCount(text, chunkSize, chunkOverlap)
splitByCharacterCount(text, chunkSize, chunkOverlap) ==
  /\ chunker.pc = "idle"
  /\ chunker' = Entered("splitByCharacterCount", text, chunkSize, chunkOverlap,
                        Len(text))
  /\ UNCHANGED <<core, rag, emb, codec, connections, loaderDb, dbUse, tx>>

\* The end index and the next start index of one iteration.
EndIndex(c) ==
  CASE c.fn = "splitByParagraphs" ->
         Min(c.startIndex + c.size, ParagraphCount(c.text))
    [] c.fn = "simpleChunker.splitByParagraphs" ->
         Min(c.startIndex + Max(1, c.size), ParagraphCount(c.text))
    [] OTHER -> BreakPoint(c.text, c.startIndex, c.size)
NextStartIndex(c) ==
  CASE c.fn = "simpleChunker.splitByParagraphs" ->
         Max(c.startIndex + 1,
             EndIndex(c) - Min(Max(0, c.overlap), Max(1, c.size) - 1))
    [] OTHER -> EndIndex(c) - c.overlap
Units(c) ==
  IF c.fn = "splitByCharacterCount" THEN Len(c.text) ELSE ParagraphCount(c.text)

\* One iteration of the while loop: push the chunk, move the start index,
\* test the loop condition. The array cannot grow beyond MaxChunks.
ChunkerIteration ==
  /\ chunker.pc = "loop"
  /\ chunker' =
       IF Len(chunker.chunks) >= MaxChunks
         THEN [chunker EXCEPT !.pc = "out of memory"]
         ELSE [chunker EXCEPT
                 !.chunks = Append(@, Chunk(Max(chunker.startIndex, 0), EndIndex(chunker))),
                 !.startIndex = NextStartIndex(chunker),
                 !.pc = IF NextStartIndex(chunker) < Units(chunker)
                          THEN "loop" ELSE "returned"]
  /\ UNCHANGED <<core, rag, emb, codec, connections, loaderDb, dbUse, tx>>

\* The caller has the chunks, or the error.
ChunkerReturn ==
  /\ chunker.pc \in {"returned", "threw"}
  /\ chunker' = NoChunker
  /\ UNCHANGED <<core, rag, emb, codec, connections, loaderDb, dbUse, tx>>

ChunkerNext ==
  \/ \E fn \in {"splitByParagraphs", "simpleChunker.splitByParagraphs"},
        text \in ParagraphTexts, maxParagraphsPerChunk \in 1..MaxChunkSize :
       \E paragraphOverlap \in 0..(maxParagraphsPerChunk - 1) :
         splitByParagraphs(fn, text, maxParagraphsPerChunk, paragraphOverlap)
  \/ \E text \in CharacterTexts, chunkSize \in 1..MaxChunkSize :
       \E chunkOverlap \in 0..(chunkSize - 1) :
         splitByCharacterCount(text, chunkSize, chunkOverlap)
  \/ ChunkerIteration
  \/ ChunkerReturn

SpecChunker == Init /\ [][ChunkerNext]_vars

\* The loop runs on once entered.
SpecChunkerFair == SpecChunker /\ WF_vars(ChunkerIteration)

\* ------------------------------ storeDocumentWithChunks, by statement
\* A document or a chunk is "ok" when its statement runs and "bad" when
\* storing it throws (no metadata, a text that is null, an embedding that
\* new Float32Array rejects).
StoredInputs == SeqsUpTo({"ok", "bad"}, MaxStoredChunks)

\* A failure without a transaction around the statements.
RollbackNothing(store, before) == store

\* ROLLBACK of the transaction begun on the store in state before, as the
\* wrapper of db.transaction issues it when the function throws.
Rollback(store, before) == before

\* storeDocumentWithChunks(document, chunks): getDatabase, BEGIN.
BeginTransaction(document, inputChunks) ==
  /\ tx.pc = "idle"
  /\ tx.store.documents < MaxStoredDocuments
  /\ Len(tx.store.rows) + Len(inputChunks) <= MaxStoredRows
  /\ tx' = [tx EXCEPT !.pc = "document", !.before = tx.store, !.doc = document,
                      !.input = inputChunks, !.documentId = 0, !.chunkIds = <<>>]
  /\ UNCHANGED <<core, rag, emb, codec, connections, loaderDb, dbUse, chunker>>

\* storeDocument(document): INSERT INTO documents, lastInsertRowid.
storeDocument ==
  /\ tx.pc = "document"
  /\ tx' = IF tx.doc = "bad"
             THEN [tx EXCEPT !.pc = "catch"]
             ELSE [tx EXCEPT !.store.documents = @ + 1,
                             !.documentId = tx.store.documents + 1,
                             !.pc = "chunks"]
  /\ UNCHANGED <<core, rag, emb, codec, connections, loaderDb, dbUse, chunker>>

\* storeChunk(chunk, documentId, index) for the next chunk of forEach.
storeChunk ==
  /\ tx.pc = "chunks"
  /\ Len(tx.chunkIds) < Len(tx.input)
  /\ tx' = IF tx.input[Len(tx.chunkIds) + 1] = "bad"
             THEN [tx EXCEPT !.pc = "catch"]
             ELSE [tx EXCEPT
                     !.store.rows = Append(@, [id |-> Len(tx.store.rows) + 1,
                                               document_id |-> tx.documentId,
                                               chunk_index |-> Len(tx.chunkIds)]),
                     !.chunkIds = Append(@, Len(tx.store.rows) + 1)]
  /\ UNCHANGED <<core, rag, emb, codec, connections, loaderDb, dbUse, chunker>>

\* return { documentId, chunkIds }, COMMIT.
CommitTransaction ==
  /\ tx.pc = "chunks"
  /\ Len(tx.chunkIds) = Len(tx.input)
  /\ tx' = [tx EXCEPT !.pc = "returned"]
  /\ UNCHANGED <<core, rag, emb, codec, connections, loaderDb, dbUse, chunker>>

\* The wrapper catches the error, rolls back and throws it again.
RollbackTransaction ==
  /\ tx.pc = "catch"
  /\ tx' = [tx EXCEPT !.store = Rollback(tx.store, tx.before), !.pc = "threw",
                      !.documentId = 0, !.chunkIds = <<>>]
  /\ UNCHANGED <<core, rag, emb, codec, connections, loaderDb, dbUse, chunker>>

\* The caller has the result, or the error.
TransactionReturn ==
  /\ tx.pc \in {"returned", "threw"}
  /\ tx' = [NoTx EXCEPT !.store = tx.store]
  /\ UNCHANGED <<core, rag, emb, codec, connections, loaderDb, dbUse, chunker>>

TxNext ==
  \/ \E document \in {"ok", "bad"}, inputChunks \in StoredInputs :
       BeginTransaction(document, inputChunks)
  \/ storeDocument
  \/ storeChunk
  \/ CommitTransaction
  \/ RollbackTransaction
  \/ TransactionReturn

SpecTx == Init /\ [][TxNext]_vars

\* --------------------------------------- the similarity functions alone

\* Elements of those vectors.
Elems == { Fin(-1), Fin(0), Fin(1), Inf(1), NaN }

RECURSIVE VectorsOfLen(_)
VectorsOfLen(n) ==
  IF n = 0 THEN { <<>> }
  ELSE { Append(v, e) : v \in VectorsOfLen(n - 1), e \in Elems }

Vectors == UNION { VectorsOfLen(n) : n \in 0..MaxLen }

\* cosineSimilarity(vectorA, vectorB) called with arrays or null; the
\* function has no throw statement and calls nothing that throws on them.
CallCosineSimilarity(x, y) ==
  /\ sim.fn = "none"
  /\ sim' = [fn |-> "cosineSimilarity", vectorA |-> x, vectorB |-> y, threw |-> FALSE,
             out |-> cosineSimilarity(x, y)]
  /\ UNCHANGED <<documents, chunks, dbInstance, call, last, side>>

\* calculateCosineSimilarity(embedding1, embedding2) called, as
\* findSimilarChunks calls it, with two Float32Arrays; it has no throw
\* statement either.
CallCalculateCosineSimilarity(x, y) ==
  /\ sim.fn = "none"
  /\ sim' = [fn |-> "calculateCosineSimilarity", vectorA |-> x, vectorB |-> y,
             threw |-> FALSE,
             out |-> calculateCosineSimilarity(Float32From(x), Float32From(y))]
  /\ UNCHANGED <<documents, chunks, dbInstance, call, last, side>>

\* cosineSimilarity of step-02/embedding_test.js called with two arrays of
\* numbers; it has no throw statement.
CallCosineSimilarityStep02(x, y) ==
  /\ sim.fn = "none"
  /\ sim' = [fn |-> "cosineSimilarity_step02", vectorA |-> x, vectorB |-> y,
             threw |-> FALSE, out |-> cosineSimilarity_step02(x.a, y.a)]
  /\ UNCHANGED <<documents, chunks, dbInstance, call, last, side>>

\* The caller takes the number the similarity function returned.
SimReturn ==
  /\ sim.fn # "none"
  /\ sim' = NoSim
  /\ UNCHANGED <<documents, chunks, dbInstance, call, last, side>>

SimNext ==
  \/ \E x \in Vectors, y \in Vectors : CallCosineSimilarity(JsArr(x), JsArr(y))
  \/ \E x \in Vectors : CallCosineSimilarity(JsNull, JsArr(x))
  \/ \E x \in Vectors : CallCosineSimilarity(JsArr(x), JsNull)
  \/ \E x \in Vectors, y \in Vectors : CallCalculateCosineSimilarity(JsArr(x), JsArr(y))
  \/ \E x \in Vectors, y \in Vectors : CallCosineSimilarityStep02(JsArr(x), JsArr(y))
  \/ SimReturn

SpecSim == Init /\ [][SimNext]_vars

\* ============================================================== claims
\* The terms the claims are stated in (specification sections 3, 4.1, 4.3).
Called == call.fn # "none"
Returned == Called /\ ~call.threw
ResultIds == { call.result[i].id : i \in 1..Len(call.result) }

\* An array all of whose elements are numbers.
IsNumberArray(x) == IsArray(x) /\ \A i \in 1..Len(x.a) : x.a[i].k # "str"

\* A query vector the specification accepts: a non-empty sequence of numbers.
ValidQuery(q) == IsNumberArray(q) /\ Len(q.a) > 0

\* The Vector Codec of section 4.1: ok = FALSE is a DecodeError or a
\* MissingEmbeddingError, else vec is the Embedding Vector.
CodecDecode(e) ==
  IF e.t = "text"
    THEN LET p == JsonParse(e.s)
         IN IF p.ok /\ IsNumberArray(p.val) THEN [ok |-> TRUE, vec |-> p.val.a]
            ELSE [ok |-> FALSE, vec |-> <<>>]
  ELSE IF e.t = "blob" /\ e.x = 0 THEN [ok |-> TRUE, vec |-> e.w]
  ELSE [ok |-> FALSE, vec |-> <<>>]

\* A stored embedding that cannot be decoded: unparseable text, or a blob
\* whose byte length is not a multiple of 4.
Undecodable(e) ==
  \/ e.t = "text" /\ ~JsonParse(e.s).ok
  \/ e.t = "blob" /\ e.x # 0

\* A valid candidate for query q: the embedding is present, decodes, and has
\* the dimension of q.
ValidCandidate(row, q) ==
  /\ CodecDecode(row.embedding).ok
  /\ Len(CodecDecode(row.embedding).vec) = Len(q.a)

\* What the called function returns over the rows given.
ResultOver(rows) ==
  IF call.fn = "retrieveTopK" THEN TopK(call.query, call.k, rows)
  ELSE SimilarChunks(call.query, call.k, call.threshold, rows).result

\* The similarity the called function computes for a row.
SimilarityOf(row) ==
  IF call.fn = "retrieveTopK"
    THEN cosineSimilarity(call.query, DecodeEmbedding(row.embedding).val)
    ELSE calculateCosineSimilarity(Float32From(call.query),
                                   Float32View(BufferFrom(row.embedding)))

\* C1 (corruption isolation): a retrieval call with a valid query over a
\* corpus holding undecodable embeddings does not raise and returns the
\* top-K of the corpus without those rows.
C1_CorruptionIsolation ==
  ( /\ Called
    /\ ValidQuery(call.query)
    /\ call.k >= 1
    /\ \E i \in 1..Len(call.rows) : Undecodable(call.rows[i].embedding) )
  => /\ ~call.threw
     /\ call.result =
          ResultOver(SelectSeq(call.rows, LAMBDA c : ~Undecodable(c.embedding)))

\* C2 (fail-fast ordering): a call with an invalid query vector (null, not
\* a sequence of numbers, or empty) raises and never fetches the corpus.
C2_FailFastOrdering ==
  (Called /\ call.k >= 1 /\ ~ValidQuery(call.query))
  => (call.threw /\ ~call.fetched)

\* C3: a call with the empty query vector [] raises; it never returns a
\* result list.
C3_EmptyQueryRejected ==
  (Called /\ call.k >= 1 /\ call.query = JsArr(<<>>)) => call.threw

\* C4 (dimension mismatch rejection): a similarity function given two
\* vectors of different lengths fails; it never returns a number.
C4_DimensionMismatchRejected ==
  ( /\ sim.fn # "none"
    /\ IsArray(sim.vectorA)
    /\ IsArray(sim.vectorB)
    /\ Len(sim.vectorA.a) # Len(sim.vectorB.a) )
  => sim.threw

\* C5: a candidate whose decoded embedding has another length than the
\* query vector never appears in the result.
C5_MismatchExcluded ==
  (Returned /\ ValidQuery(call.query))
  => \A i \in 1..Len(call.rows) :
       ( /\ CodecDecode(call.rows[i].embedding).ok
         /\ Len(CodecDecode(call.rows[i].embedding).vec) # Len(call.query.a) )
       => call.rows[i].id \notin ResultIds

\* C6: a stored text that parses as JSON but is not an array of numbers is a
\* decode error: its chunk never appears in the result.
C6_JsonNonVectorExcluded ==
  Called
  => \A i \in 1..Len(call.rows) :
       ( /\ call.rows[i].embedding.t = "text"
         /\ JsonParse(call.rows[i].embedding.s).ok
         /\ ~IsNumberArray(JsonParse(call.rows[i].embedding.s).val) )
       => call.rows[i].id \notin ResultIds

\* C7: a chunk whose stored embedding is NULL appears in no retrieval
\* result, whatever the query, k and threshold.
C7_MissingEmbeddingExcluded ==
  Called
  => \A i \in 1..Len(chunks) :
       chunks[i].embedding.t = "null" => chunks[i].id \notin ResultIds

\* C7 witness: a call over a corpus with a NULL embedding and a scored chunk
\* returned the scored chunk alone although k admits both rows.
C7_Witness ==
  /\ Returned
  /\ Len(chunks) = 2
  /\ call.k >= 2
  /\ \E i \in 1..Len(chunks) : chunks[i].embedding.t = "null"
  /\ Len(call.result) = 1

\* C8 (top-K cardinality): for k >= 1 the result of retrieveTopK has exactly
\* min(k, V) elements, V the number of valid candidates.
C8_TopKCardinality ==
  (call.fn = "retrieveTopK" /\ ~call.threw /\ ValidQuery(call.query) /\ call.k >= 1)
  => Len(call.result) =
       Min(call.k,
           Cardinality({ i \in 1..Len(call.rows) : ValidCandidate(call.rows[i], call.query) }))

\* C9 (descending order): in every result, each similarity is >= the next.
C9_DescendingOrder ==
  Returned
  => \A i \in 1..(Len(call.result) - 1) :
       SimGE(call.result[i].similarity, call.result[i + 1].similarity)

\* C10 (top-K optimality): every valid candidate passing the threshold that
\* is not in the result has a similarity <= that of every result element.
C10_TopKOptimality ==
  (Returned /\ ValidQuery(call.query) /\ call.k >= 1)
  => \A i \in 1..Len(call.rows) :
       ( /\ ValidCandidate(call.rows[i], call.query)
         /\ call.rows[i].id \notin ResultIds
         /\ (call.fn = "findSimilarChunks"
               => SimGE(SimilarityOf(call.rows[i]), call.threshold)) )
       => \A j \in 1..Len(call.result) :
            SimGE(call.result[j].similarity, SimilarityOf(call.rows[i]))

\* ------------------------------------------------------ claims C11..C20
\* a === b on similarities (false when either is NaN).
SimEq(a, b) ==
  /\ a.k = "val"
  /\ b.k = "val"
  /\ a.num * b.den = b.num * a.den

\* The position of chunk id in the result of the call.
PositionOf(id) == CHOOSE p \in 1..Len(call.result) : call.result[p].id = id

C12_ThresholdFilter ==
  (call.fn = "findSimilarChunks" /\ ~call.threw /\ call.thresholdGiven)
  => /\ \A p \in 1..Len(call.result) :
          /\ call.result[p].similarity.k = "val"
          /\ ~SimLT(call.result[p].similarity, call.threshold)
     /\ \A i \in 1..Len(call.rows) :
          ( /\ ValidQuery(call.query)
            /\ ValidCandidate(call.rows[i], call.query)
            /\ SimEq(SimilarityOf(call.rows[i]), call.threshold)
            /\ Len(call.result) < call.k )
          => call.rows[i].id \in ResultIds

\* C12 witness: a call given the threshold 0 kept a candidate that scores
\* exactly 0 and dropped one that scores below 0, with room left under k.
C12_Witness ==
  /\ call.fn = "findSimilarChunks"
  /\ ~call.threw
  /\ call.thresholdGiven
  /\ ValidQuery(call.query)
  /\ Len(call.result) < call.k
  /\ \E i \in 1..Len(call.rows) :
       /\ ValidCandidate(call.rows[i], call.query)
       /\ SimEq(SimilarityOf(call.rows[i]), call.threshold)
       /\ call.rows[i].id \in ResultIds
  /\ \E i \in 1..Len(call.rows) :
       /\ ValidCandidate(call.rows[i], call.query)
       /\ SimLT(SimilarityOf(call.rows[i]), call.threshold)
       /\ call.rows[i].id \notin ResultIds

\* C13 (no default threshold): when the caller supplies no minimum
\* similarity, no valid candidate is dropped because of its score: every
\* valid candidate is in the result unless the result already has k elements.
C13_NoDefaultThreshold ==
  (Returned /\ ValidQuery(call.query) /\ call.k >= 1 /\ ~call.thresholdGiven)
  => \A i \in 1..Len(call.rows) :
       (ValidCandidate(call.rows[i], call.query) /\ Len(call.result) < call.k)
       => call.rows[i].id \in ResultIds

\* A vector all of whose components are 0.
IsZeroVector(v) == \A i \in 1..Len(v) : v[i] = Fin(0)

\* The two arguments of the similarity call are arrays of the same length.
EqualLengthCall ==
  /\ sim.fn # "none"
  /\ IsArray(sim.vectorA)
  /\ IsArray(sim.vectorB)
  /\ Len(sim.vectorA.a) = Len(sim.vectorB.a)

\* What the called similarity function returns for the arguments x, y.
SimilarityBy(fn, x, y) ==
  IF fn = "cosineSimilarity" THEN cosineSimilarity(x, y)
  ELSE IF fn = "calculateCosineSimilarity"
    THEN calculateCosineSimilarity(Float32From(x), Float32From(y))
  ELSE cosineSimilarity_step02(x.a, y.a)

\* C14 (zero-vector neutrality): a similarity function given a vector and
\* the zero vector of the same length, in either order, returns exactly 0,
\* never NaN.
C14_ZeroVectorNeutrality ==
  ( /\ EqualLengthCall
    /\ IsZeroVector(sim.vectorA.a) \/ IsZeroVector(sim.vectorB.a) )
  => (~sim.threw /\ sim.out = SimZero)

C16_Range ==
  ( /\ EqualLengthCall
    /\ sim.fn = "cosineSimilarity"
    /\ ~IsZeroVector(sim.vectorA.a)
    /\ ~IsZeroVector(sim.vectorB.a) )
  => /\ sim.out.k = "val"
     /\ Abs(sim.out.num) <= sim.out.den

\* The call repeats the kept call: same function, query, k and threshold,
\* against the same rows of both tables.
RepeatsKeptCall ==
  /\ Called
  /\ last.call.fn = call.fn
  /\ last.call.query = call.query
  /\ last.call.k = call.k
  /\ last.call.threshold = call.threshold
  /\ last.call.thresholdGiven = call.thresholdGiven
  /\ last.chunks = chunks
  /\ last.documents = documents

C18_ReadOnlyRetrieval ==
  [][ (call.fn = "none" /\ call'.fn # "none")
      => /\ chunks' = chunks
         /\ documents' = documents
         /\ call'.fetched => call'.rows = JoinedRows(chunks, documents) ]_vars

\* C18 witness: a call over a corpus of two rows returned a result, and the
\* table holds the two rows the call fetched.
C18_Witness ==
  /\ Returned
  /\ call.fetched
  /\ Len(chunks) = 2
  /\ Len(call.result) >= 1
  /\ call.rows = JoinedRows(chunks, documents)

\* C19 (freshness): every chunk stored with a decodable embedding before a
\* retrieval call is among the rows the call scores, and a chunk stored with
\* the query's own embedding is in the result of a call with k >= 1 when no
\* other chunk scores as high as it does.
C19_Freshness ==
  (Called /\ call.fetched)
  => /\ \A i \in 1..Len(chunks) :
          CodecDecode(chunks[i].embedding).ok
          => \E j \in 1..Len(call.rows) : call.rows[j] = chunks[i]
     /\ (Returned /\ ValidQuery(call.query) /\ call.k >= 1)
        => \A i \in 1..Len(call.rows) :
             ( /\ CodecDecode(call.rows[i].embedding).ok
               /\ CodecDecode(call.rows[i].embedding).vec = call.query.a
               /\ \A j \in 1..Len(call.rows) :
                    j # i => ~SimGE(SimilarityOf(call.rows[j]), SimilarityOf(call.rows[i])) )
             => call.rows[i].id \in ResultIds

\* A valid candidate of the call that the supplied threshold, if any, does
\* not filter out.
RemainingCandidate(row) ==
  /\ ValidCandidate(row, call.query)
  /\ call.thresholdGiven => SimGE(SimilarityOf(row), call.threshold)

\* C20 (empty outcome is not an error): a retrieval call with a valid query
\* over an empty corpus, or over a corpus of which no candidate remains after
\* decoding and threshold filtering, returns the empty list and does not
\* raise.
C20_EmptyOutcome ==
  ( /\ Called
    /\ ValidQuery(call.query)
    /\ \A i \in 1..Len(JoinedRows(chunks, documents)) :
         ~RemainingCandidate(JoinedRows(chunks, documents)[i]) )
  => (~call.threw /\ call.result = <<>>)

\* ------------------------------------------------------ claims C21..C30
\* C21: a stored blob whose byte length is not a multiple of 4 is a decode
\* error for that record: a call with a valid query does not fail and the
\* chunk is not in its result.
C21_RaggedBlobDropped ==
  (Called /\ ValidQuery(call.query))
  => \A i \in 1..Len(call.rows) :
       (call.rows[i].embedding.t = "blob" /\ call.rows[i].embedding.x # 0)
       => /\ ~call.threw
          /\ call.rows[i].id \notin ResultIds

C23_ModelLoadedOnce ==
  /\ emb.loads <= 1
  /\ \A p \in Callers : emb.got[p] \in {0, 1}

OpenConnections == { h \in 1..Len(connections) : connections[h] = "open" }

C29_NoUseAfterClose ==
  dbUse.op = "statement" => dbUse.state = "open"

\* C26 (splitByParagraphs terminates): once a call of splitByParagraphs, of
\* either file, is in its loop, it returns its chunks.
C26_ParagraphsTerminate ==
  (chunker.pc = "loop" /\ chunker.fn \in {"splitByParagraphs", "simpleChunker.splitByParagraphs"})
    ~> (chunker.pc = "returned")

\* C27 (splitByCharacterCount terminates): every iteration of the loop of
\* splitByCharacterCount leaves the start index larger than it found it.
C27_StartIndexIncreases ==
  [][(chunker.fn = "splitByCharacterCount" /\ chunker.pc = "loop"
        /\ chunker'.chunks # chunker.chunks)
      => chunker'.startIndex > chunker.startIndex]_vars

\* The chunk rows of document d.
RowsOfDocument(rows, d) == { i \in 1..Len(rows) : rows[i].document_id = d }

\* C28 (storeDocumentWithChunks is all-or-nothing): after a call that threw
\* the store holds the documents and chunk rows it held before the call;
\* after a call that returned it holds one more document, the rows of
\* before unchanged, and for that document exactly one row per input chunk,
\* with chunk_index the chunk's position and its id at that position of
\* chunkIds.
C28_AllOrNothing ==
  /\ tx.pc = "threw" => tx.store = tx.before
  /\ tx.pc = "returned"
     => /\ tx.store.documents = tx.before.documents + 1
        /\ tx.documentId = tx.store.documents
        /\ SubSeq(tx.store.rows, 1, Len(tx.before.rows)) = tx.before.rows
        /\ Len(tx.chunkIds) = Len(tx.input)
        /\ Cardinality(RowsOfDocument(tx.store.rows, tx.documentId)) = Len(tx.input)
        /\ \A p \in 1..Len(tx.input) :
             \E i \in RowsOfDocument(tx.store.rows, tx.documentId) :
               /\ tx.store.rows[i].chunk_index = p - 1
               /\ tx.store.rows[i].id = tx.chunkIds[p]
               /\ \A j \in 1..Len(tx.store.rows) :
                    tx.store.rows[j].id = tx.chunkIds[p] => j = i

\* C28 witness: a call whose second chunk failed, after the document row
\* and the first chunk row had been inserted, has thrown, on a store that
\* held rows before.
C28_Witness ==
  /\ tx.pc = "threw"
  /\ tx.doc = "ok"
  /\ tx.input = <<"ok", "bad">>
  /\ Len(tx.before.rows) > 0

\* C30 (k at most zero): a retrieveTopK that returns has at most max(k, 0)
\* elements in its result, so none when k is zero or negative.
C30_NonPositiveK ==
  (call.fn = "retrieveTopK" /\ Returned) => Len(call.result) <= Max(call.k, 0)

====
